---- MODULE Spec2Model ----
(***************************************************************************)
(* Model of PdfProcessor (src/src/pdf_processor.cpp): the statement        *)
(* scanner processPdfs, the field extractor generateTransaction, trim,     *)
(* sortTransactions and generateCsvFile.                                   *)
(*                                                                         *)
(* Strings are sequences of one-character strings; the character at C++    *)
(* index k is s[k + 1].  A size_t value is represented by the integer of   *)
(* least magnitude congruent to it modulo 2^64: std::string::npos is -1,   *)
(* npos + 3 is 2, and 0 - 2 is -2 (the size_t 2^64 - 2).  A negative       *)
(* representative is therefore larger than every string size.              *)
(***************************************************************************)
EXTENDS Integers, Sequences, FiniteSets, TLC

----------------------------------------------------------------------------
(* Bounds of the model                                                     *)

MaxFiles == 2
MaxPages == 2
MaxTotalLines == 3

----------------------------------------------------------------------------
(* std::string operations used by the source                               *)

npos == -1

Ok(x) == [ok |-> TRUE, v |-> x]

Err == [ok |-> FALSE, v |-> <<>>]

WhiteSpace == {" ", "\t", "\n", "\r"}

\* The characters std::isspace accepts, skipped by strtol / strtod (the
\* vertical tab, which has no TLA+ escape, occurs in no input).
IsSpaceChars == {" ", "\t", "\n", "\r", "\f"}

DigitChars == <<"0", "1", "2", "3", "4", "5", "6", "7", "8", "9">>

IsDigit(c) == \E d \in 1..10 : DigitChars[d] = c

DigitVal(c) == (CHOOSE d \in 1..10 : DigitChars[d] = c) - 1

\* s.find_first_not_of(chars)
find_first_not_of(s, chars) ==
    IF \E k \in 1..Len(s) : s[k] \notin chars
    THEN (CHOOSE k \in 1..Len(s) :
             s[k] \notin chars /\ \A j \in 1..(k - 1) : s[j] \in chars) - 1
    ELSE npos

\* s.find_last_not_of(chars)
find_last_not_of(s, chars) ==
    IF \E k \in 1..Len(s) : s[k] \notin chars
    THEN (CHOOSE k \in 1..Len(s) :
             s[k] \notin chars /\ \A j \in (k + 1)..Len(s) : s[j] \in chars) - 1
    ELSE npos

\* s.find(c, pos) for a one-character needle
find(s, c, pos) ==
    IF pos >= 0 /\ \E k \in (pos + 1)..Len(s) : s[k] = c
    THEN (CHOOSE k \in (pos + 1)..Len(s) :
             s[k] = c /\ \A j \in (pos + 1)..(k - 1) : s[j] # c) - 1
    ELSE npos

\* s.rfind(c)
rfind(s, c) ==
    IF \E k \in 1..Len(s) : s[k] = c
    THEN (CHOOSE k \in 1..Len(s) :
             s[k] = c /\ \A j \in (k + 1)..Len(s) : s[j] # c) - 1
    ELSE npos

\* s.substr(pos, n) throws std::out_of_range when pos > s.size().
substrThrows(s, pos) == pos < 0 \/ pos > Len(s)

\* s.substr(pos, n) for pos <= s.size(): min(n, size - pos) characters.
substrOf(s, pos, n) ==
    LET cnt == IF n < 0 \/ n > Len(s) - pos THEN Len(s) - pos ELSE n
    IN  SubSeq(s, pos + 1, pos + cnt)

substr(s, pos, n) ==
    IF substrThrows(s, pos) THEN Err ELSE Ok(substrOf(s, pos, n))

\* Number of digit characters of s starting at the 1-based position p.
RECURSIVE DigitRun(_, _)
DigitRun(s, p) ==
    IF p <= Len(s) /\ IsDigit(s[p]) THEN 1 + DigitRun(s, p + 1) ELSE 0

\* Decimal value of the n digits of s starting at the 1-based position p.
RECURSIVE DigitsValue(_, _, _)
DigitsValue(s, p, n) ==
    IF n = 0 THEN 0
    ELSE 10 * DigitsValue(s, p, n - 1) + DigitVal(s[p + n - 1])

RECURSIVE Pow10(_)
Pow10(n) == IF n = 0 THEN 1 ELSE 10 * Pow10(n - 1)

\* std::stoi: skips white space, reads a sign and decimal digits, stops at
\* the first other character; throws std::invalid_argument without a digit.
stoi(s) ==
    LET first == find_first_not_of(s, IsSpaceChars)
        p     == first + 1
        sgn   == first # npos /\ s[p] \in {"+", "-"}
        q     == IF sgn THEN p + 1 ELSE p
        n     == IF first = npos THEN 0 ELSE DigitRun(s, q)
        val   == DigitsValue(s, q, n)
    IN  IF n = 0 THEN Err
        ELSE Ok(IF sgn /\ s[p] = "-" THEN 0 - val ELSE val)

\* A double with a decimal expansion: num / 10^scale, without trailing
\* zeros in the fraction.
RECURSIVE Decimal(_, _)
Decimal(num, scale) ==
    IF scale > 0 /\ num % 10 = 0 THEN Decimal(num \div 10, scale - 1)
    ELSE [num |-> num, scale |-> scale]

\* std::stod on decimal text: white space, sign, digits, '.', digits
\* (exponents, hexadecimal, inf and nan are not produced by the inputs).
\* Throws std::invalid_argument when there is no digit.
stod(s) ==
    LET first == find_first_not_of(s, IsSpaceChars)
        p     == first + 1
        sgn   == first # npos /\ s[p] \in {"+", "-"}
        q     == IF sgn THEN p + 1 ELSE p
        n1    == IF first = npos THEN 0 ELSE DigitRun(s, q)
        dot   == first # npos /\ q + n1 <= Len(s) /\ s[q + n1] = "."
        n2    == IF dot THEN DigitRun(s, q + n1 + 1) ELSE 0
        val   == DigitsValue(s, q, n1) * Pow10(n2)
                     + DigitsValue(s, q + n1 + 1, n2)
    IN  IF n1 + n2 = 0 THEN Err
        ELSE Ok(Decimal(IF sgn /\ s[p] = "-" THEN 0 - val ELSE val, n2))

\* amountStr.erase(std::remove(begin, end, ','), end)
removeCommas(s) == SelectSeq(s, LAMBDA c : c # ",")

----------------------------------------------------------------------------
(* PdfProcessor::trim                                                      *)

trim(str) ==
    LET leading == find_first_not_of(str, WhiteSpace)
        result  == IF leading # 0 THEN substr(str, leading, npos) ELSE Ok(str)
        end     == find_last_not_of(str, WhiteSpace)
    IN  IF ~result.ok THEN Err
        ELSE IF end = npos THEN Ok(<<>>)
        ELSE substr(result.v, 0, end + 1)

----------------------------------------------------------------------------
(* Constants and types of the repository that the source includes          *)

\* constants::REF_NUM_SIZE (constants.h): the width of the reference number
\* of the specification's example line, "REF001234".
REF_NUM_SIZE == 9

\* Date(year, month, day): the three numbers as given.
Date(y, m, d) == [year |-> y, month |-> m, day |-> d]

\* new Transaction(): a record none of whose fields has been set.
NewTransaction ==
    [lastFour |-> <<>>, date |-> Date(0, 0, 0), refNum |-> <<>>,
     amount |-> Decimal(0, 0), name |-> <<>>]


----------------------------------------------------------------------------
(* PdfProcessor::generateTransaction                                       *)

\* Lines 236-239: remove the leading last four of a new-format line.
removeLastFour(ln, isOldFormat, isInterestCharge) ==
    IF ~isOldFormat /\ ~isInterestCharge
    THEN substr(ln, find_first_not_of(ln, {" ", "\t"}) + 4, npos)
    ELSE Ok(ln)

\* Lines 246-251: the year of the transaction.
correctYearAlways(yr, isJanStatement, monthVal) == yr - 1

correctYear(yr, isJanStatement, monthVal) ==
    LET isDecemberTransaction == monthVal = 12
    IN  IF isJanStatement /\ isDecemberTransaction THEN yr - 1 ELSE yr

\* Line 255: remove the date from the line.
removeDate(ln, dateIdx) == substr(ln, find(ln, "/", dateIdx + 1) + 3, npos)

\* Lines 257-265: the reference number and the line after it.
extractRefNumOffByOne(ln, isInterestCharge) ==
    IF ~isInterestCharge
    THEN LET refNumIdx == find_first_not_of(ln, {" "})
             refNum    == substr(ln, refNumIdx, REF_NUM_SIZE)
             rest      == substr(ln, refNumIdx + REF_NUM_SIZE + 1, npos)
         IN  IF ~refNum.ok \/ ~rest.ok THEN Err
             ELSE Ok([refNum |-> refNum.v, ln |-> rest.v])
    ELSE Ok([refNum |-> NewTransaction.refNum, ln |-> ln])

extractRefNum(ln, isInterestCharge) ==
    IF ~isInterestCharge
    THEN LET refNumIdx == find_first_not_of(ln, {" "})
             refNum    == substr(ln, refNumIdx, REF_NUM_SIZE)
             rest      == substr(ln, refNumIdx + REF_NUM_SIZE, npos)
         IN  IF ~refNum.ok \/ ~rest.ok THEN Err
             ELSE Ok([refNum |-> refNum.v, ln |-> rest.v])
    ELSE Ok([refNum |-> NewTransaction.refNum, ln |-> ln])

\* Lines 267-283: the amount and the name.
extractAmountAndName(ln) ==
    LET trimmed == trim(ln)
    IN  IF ~trimmed.ok THEN Err
        ELSE
        LET ln1        == trimmed.v
            amountIdx  == rfind(ln1, " ") + 1
            amountStr  == removeCommas(substrOf(ln1, amountIdx, npos))
            amount     == stod(amountStr)
            ln2        == substrOf(ln1, 0, amountIdx - 1)
            nameEndIdx == find_last_not_of(ln2, WhiteSpace)
            name       == substrOf(ln2, 0, nameEndIdx + 1)
        IN  IF ~amount.ok THEN Err
            ELSE Ok([amount |-> amount.v, name |-> name])

\* The record generateTransaction fills in, or Err when it throws
\* (std::out_of_range from substr, std::invalid_argument from stoi / stod).
generateTransaction(ln, yr, isJanStatement, lastFourArg, isOldFormat, isInterestCharge) ==
    LET l1 == removeLastFour(ln, isOldFormat, isInterestCharge)
    IN  IF ~l1.ok THEN Err
        ELSE
        LET dateIdx  == find(l1.v, "/", 0)
            monthStr == substr(l1.v, dateIdx - 2, 2)
            monthVal == IF monthStr.ok THEN stoi(monthStr.v) ELSE Err
            dayStr   == substr(l1.v, dateIdx + 1, 2)
            dayVal   == IF dayStr.ok THEN stoi(dayStr.v) ELSE Err
        IN  IF ~monthVal.ok \/ ~dayVal.ok THEN Err
            ELSE
            LET dateVal == Date(correctYear(yr, isJanStatement, monthVal.v),
                                monthVal.v, dayVal.v)
                l2      == removeDate(l1.v, dateIdx)
            IN  IF ~l2.ok THEN Err
                ELSE
                LET ref == extractRefNum(l2.v, isInterestCharge)
                IN  IF ~ref.ok THEN Err
                    ELSE
                    LET an == extractAmountAndName(ref.v.ln)
                    IN  IF ~an.ok THEN Err
                        ELSE Ok([NewTransaction EXCEPT
                                   !.lastFour = lastFourArg,
                                   !.date     = dateVal,
                                   !.refNum   = ref.v.refNum,
                                   !.amount   = an.v.amount,
                                   !.name     = an.v.name])

----------------------------------------------------------------------------
(* QuickSort::quickSort (quick_sort.h) and Transaction::getCsvFormat       *)

\* Transactions are ordered by date.
DateLess(a, b) ==
    \/ a.year < b.year
    \/ a.year = b.year /\ a.month < b.month
    \/ a.year = b.year /\ a.month = b.month /\ a.day < b.day

\* The records that go before the pivot: those not after it, so that
\* records of equal date keep their order of discovery.
beforePivotStrict(t, pivot) == DateLess(t.date, pivot.date)

beforePivot(t, pivot) == ~DateLess(pivot.date, t.date)

RECURSIVE qsortRange(_)
qsortRange(s) ==
    IF Len(s) <= 1 THEN s
    ELSE LET pivot == s[Len(s)]
             rest  == SubSeq(s, 1, Len(s) - 1)
             lo    == SelectSeq(rest, LAMBDA t : beforePivot(t, pivot))
             hi    == SelectSeq(rest, LAMBDA t : ~beforePivot(t, pivot))
         IN  qsortRange(lo) \o <<pivot>> \o qsortRange(hi)

\* quickSort(arr, low, high): sorts arr[low..high] in place.
quickSort(arr, low, high) ==
    IF low < high
    THEN SubSeq(arr, 1, low) \o qsortRange(SubSeq(arr, low + 1, high + 1))
             \o SubSeq(arr, high + 2, Len(arr))
    ELSE arr

\* One line of the CSV file: the fields in the order date, reference
\* number, name, amount, last four.
getCsvFormat(t) == <<t.date, t.refNum, t.name, t.amount, t.lastFour>>

----------------------------------------------------------------------------
(* Inputs: statement file paths and statement lines                        *)

\* Paths as gatherPdfFiles stores them: directory, backslash, MMDDYY.pdf.
PathJan ==
    <<"s","\\","0","1","0","5","2","4",".","p","d","f">>

PathMar ==
    <<"s","\\","0","3","1","5","2","4",".","p","d","f">>

Paths == {PathJan, PathMar}

\* The lists of files gatherPdfFiles can leave in pdfFiles.
PdfFileLists == UNION {[1..n -> Paths] : n \in 0..MaxFiles}

\* The texts of the lines a page can hold.
TxtLastFour ==
    <<"E","n","d","i","n","g"," ","i","n"," ","1","2","3","4">>

TxtTitle ==
    <<"T","r","a","n","s","a","c","t","i","o","n","s">>

TxtNewDec ==
    <<"1","2","3","4"," ","1","2","/","1","5"," ","1","2","/","1","6"," ","R","E","F","0","0","1","2","3","4"," ","S","T","O","R","E"," ","4","5",".","6","7">>

TxtExample ==
    <<"1","2","3","4"," "," "," ","0","1","/","1","5"," "," ","R","E","F","0","0","1","2","3","4"," "," "," ","S","T","O","R","E"," ","P","U","R","C","H","A","S","E"," "," "," "," "," "," "," "," "," "," ","4","5",".","6","7">>

TxtSkip ==
    <<"1","2","3","4"," ","0","1","/","2","0"," ","0","1","/","2","1"," ","R","E","F","0","0","1","2","3","5"," ","O","N","L","I","N","E"," ","P","A","Y","M","E","N","T"," ","5","0",".","0","0">>

TxtBadDate ==
    <<"1","2","3","4"," ","0","2","/","3","0"," ","0","2","/","3","1"," ","R","E","F","0","0","1","2","3","7"," ","S","T","O","R","E"," ","1",".","0","0">>

TxtInterest ==
    <<"0","1","/","3","1"," ","0","1","/","3","1"," ","I","N","T","E","R","E","S","T"," ","C","H","A","R","G","E"," ","1","2",".","3","4">>

TxtOld ==
    <<"1","2","/","1","5"," ","1","2","/","1","6"," ","R","E","F","0","0","1","2","3","6"," ","S","H","O","P"," ","1",",","0","0","5",".","0","0">>

TxtRelevant ==
    <<" ","T","O","T","A","L"," ","F","E","E","S"," ","0",".","0","0">>

\* Lines that match the last-four pattern and another pattern as well.
TxtLastFourTitle ==
    <<"T","r","a","n","s","a","c","t","i","o","n","s"," ",
      "e","n","d","i","n","g"," ","i","n"," ","5","6","7","8">>

TxtLastFourShape ==
    <<"1","2","3","4"," ","0","1","/","2","2"," ","0","1","/","2","3"," ",
      "R","E","F","0","0","1","2","3","8"," ",
      "E","N","D","I","N","G"," ","I","N"," ","5","6","7","8">>

TxtIgnore ==
    <<"P","a","g","e"," ","1"," ","o","f"," ","4">>

\* A line of page text together with the patterns of constants::regex
\* (constants.h) that it matches.
Line(text, pats) == [text |-> text, pats |-> pats]

LastFourLine == Line(TxtLastFour, {"lastFour"})

TitleLine == Line(TxtTitle, {"title"})

NewDecLine == Line(TxtNewDec, {"new"})

ExampleLine == Line(TxtExample, {"new"})

SkipLine == Line(TxtSkip, {"new", "skip"})

BadDateLine == Line(TxtBadDate, {"new"})

InterestLine == Line(TxtInterest, {"interest"})

OldLine == Line(TxtOld, {"old"})

RelevantLine == Line(TxtRelevant, {"relevant"})

IgnoreLine == Line(TxtIgnore, {})

LastFourTitleLine == Line(TxtLastFourTitle, {"lastFour", "title"})

LastFourShapeLine == Line(TxtLastFourShape, {"lastFour", "new"})

LineSet ==
    {LastFourLine, TitleLine, NewDecLine, ExampleLine, SkipLine, BadDateLine,
     InterestLine, OldLine, RelevantLine, IgnoreLine, LastFourTitleLine,
     LastFourShapeLine}

NoLine == Line(<<>>, {})

\* The argument of a call: the function, its text and its flags.
Call(fn, s, isOldFormat, isInterestCharge, isJanStatement) ==
    [fn |-> fn, s |-> s, isOldFormat |-> isOldFormat,
     isInterestCharge |-> isInterestCharge, isJanStatement |-> isJanStatement]

NoCall == Call("none", <<>>, FALSE, FALSE, FALSE)

lastFourPattern(l) == "lastFour" \in l.pats

transactionTitlePattern(l) == "title" \in l.pats

transactionPattern(l) == "new" \in l.pats

transactionPatternInterest(l) == "interest" \in l.pats

transactionPatternOld(l) == "old" \in l.pats

transactionSkip(l) == "skip" \in l.pats

transactionPatternSkippedRelevant(l) == "relevant" \in l.pats

SKIPPED_LINES_BANNER ==
    <<"-","-"," ","S","K","I","P","P","E","D"," ","L","I","N","E","S"," ","-","-">>

----------------------------------------------------------------------------
(* State                                                                   *)

VARIABLES
    pc,                     \* position in the run
    pdfFiles,               \* PdfProcessor::pdfFiles
    skippedLinesOpen,       \* whether the skippedLines stream is usable
    skippedLines,           \* the lines written to the skippedLines stream
    transactions,           \* PdfProcessor::transactions
    csvFile,                \* the chunks written to the CSV file
    fileIdx,                \* position of the loop over pdfFiles (1-based)
    month, day, year,       \* processPdfs: texts cut from the file name
    isJanuaryStatement,
    doc,                    \* "none", "null" (load failed) or "open"
    numPages,
    i,                      \* page index
    currentPage,            \* "none", "null" (create_page failed) or "open"
    transactionTitleCount,
    lastFourFound,
    lastFour,
    line,                   \* the line read last by std::getline
    linePage,               \* the page index it was read on (history)
    linesRead,              \* lines read in the whole run (bounded)
    titleLines,             \* lines of the current statement that match the
                            \* section-title pattern (history)
    callArg,                \* the argument of a function called on its own
    callRet                 \* and what the call returned or threw

vars ==
    <<pc, pdfFiles, skippedLinesOpen, skippedLines, transactions, csvFile,
      fileIdx, month, day, year, isJanuaryStatement, doc, numPages, i,
      currentPage, transactionTitleCount, lastFourFound, lastFour, line,
      linePage, linesRead, titleLines, callArg, callRet>>

callVars == <<callArg, callRet>>

fileVars == <<month, day, year, isJanuaryStatement, doc, numPages>>

scanVars ==
    <<transactionTitleCount, lastFourFound, lastFour, line, linePage,
      titleLines>>

Init ==
    /\ pc = "start"
    /\ pdfFiles \in PdfFileLists
    /\ skippedLinesOpen \in BOOLEAN
    /\ skippedLines = <<>>
    /\ transactions = <<>>
    /\ csvFile = <<>>
    /\ fileIdx = 1
    /\ month = <<>> /\ day = <<>> /\ year = <<>>
    /\ isJanuaryStatement = FALSE
    /\ doc = "none"
    /\ numPages = 0
    /\ i = 0
    /\ currentPage = "none"
    /\ transactionTitleCount = 0
    /\ lastFourFound = FALSE
    /\ lastFour = <<>>
    /\ line = NoLine
    /\ linePage = 0
    /\ linesRead = 0
    /\ titleLines = 0
    /\ callArg = NoCall
    /\ callRet = Err

----------------------------------------------------------------------------
(* PdfProcessor::processPdfs                                               *)

\* Lines 83-88: the stream check and the banner of the skipped-lines log.
StartProcessPdfs ==
    /\ pc = "start"
    /\ IF ~skippedLinesOpen
       THEN pc' = "aborted" /\ UNCHANGED skippedLines
       ELSE pc' = "file"
            /\ skippedLines' = Append(skippedLines, SKIPPED_LINES_BANNER)
    /\ UNCHANGED <<callVars, pdfFiles,
                   skippedLinesOpen, transactions, csvFile, fileIdx,
                   fileVars, i, currentPage, scanVars, linesRead>>

\* Lines 94-99: the date in the file name.
fileDate(file) ==
    LET slashIndex == find(file, "\\", 0)
        m == substr(file, slashIndex + 1, 2)
        d == substr(file, slashIndex + 3, 2)
        y == substr(file, slashIndex + 5, 2)
    IN  IF ~m.ok \/ ~d.ok \/ ~y.ok THEN Err
        ELSE Ok([month |-> m.v, day |-> d.v, year |-> <<"2", "0">> \o y.v,
                 isJanuaryStatement |-> m.v = <<"0", "1">>])

\* Lines 103-109: a document that did not load ends the run.
afterLoadUnchecked(loaded) == "page"

afterLoad(loaded) == IF loaded THEN "page" ELSE "aborted"

\* The scanner state declared before the file loop: a statement starts
\* with the state that the statement before it has left.
scannerAtStatementStartKept ==
    [transactionTitleCount |-> transactionTitleCount,
     lastFourFound |-> lastFourFound, lastFour |-> lastFour]

\* Lines 113-115: the scanner state is declared inside the body of the
\* file loop, so every statement starts with these values.
scannerAtStatementStart ==
    [transactionTitleCount |-> 0, lastFourFound |-> FALSE, lastFour |-> <<>>]

\* Lines 91-118: the next file of pdfFiles is loaded and the scanner state
\* of the statement is initialised.
OpenFile ==
    /\ pc = "file"
    /\ fileIdx <= Len(pdfFiles)
    /\ LET fd == fileDate(pdfFiles[fileIdx])
       IN  IF ~fd.ok
           THEN /\ pc' = "aborted"
                /\ UNCHANGED <<fileVars, i, scanVars>>
           ELSE \E loaded \in BOOLEAN, n \in 0..MaxPages :
                /\ month' = fd.v.month
                /\ day' = fd.v.day
                /\ year' = fd.v.year
                /\ isJanuaryStatement' = fd.v.isJanuaryStatement
                /\ doc' = IF loaded THEN "open" ELSE "null"
                /\ pc' = afterLoad(loaded)
                /\ IF loaded
                   THEN /\ numPages' = n
                        /\ transactionTitleCount' =
                              scannerAtStatementStart.transactionTitleCount
                        /\ lastFourFound' =
                              scannerAtStatementStart.lastFourFound
                        /\ lastFour' = scannerAtStatementStart.lastFour
                        /\ titleLines' = 0
                        /\ i' = 0
                        /\ UNCHANGED <<line, linePage>>
                   ELSE UNCHANGED <<numPages, i, scanVars>>
    /\ UNCHANGED <<callVars, pdfFiles,
                   skippedLinesOpen, skippedLines, transactions,
                   csvFile, fileIdx, currentPage, linesRead>>

\* The scanner state declared inside the page loop instead of the file
\* loop: every page starts the searches again.
OpenPageResettingScanner ==
    /\ pc = "page"
    /\ i < numPages
    /\ \E created \in BOOLEAN :
          /\ currentPage' = IF created THEN "open" ELSE "null"
          /\ pc' = IF created THEN "line" ELSE "aborted"
    /\ transactionTitleCount' = 0
    /\ lastFourFound' = FALSE
    /\ lastFour' = <<>>
    /\ UNCHANGED <<callVars, pdfFiles,
                   skippedLinesOpen, skippedLines, transactions,
                   csvFile, fileIdx, fileVars, i, line, linePage,
                   titleLines, linesRead>>

\* Lines 118-122 and 202-205: the next page is created; a page that cannot
\* be created ends the run.
OpenPage ==
    /\ pc = "page"
    /\ i < numPages
    /\ \E created \in BOOLEAN :
          /\ currentPage' = IF created THEN "open" ELSE "null"
          /\ pc' = IF created THEN "line" ELSE "aborted"
    /\ UNCHANGED <<callVars, pdfFiles,
                   skippedLinesOpen, skippedLines, transactions,
                   csvFile, fileIdx, fileVars, i, scanVars, linesRead>>

\* Lines 118 and 207-208: after the last page the document is deleted and
\* the loop goes on to the next file.
CloseFile ==
    /\ pc = "page"
    /\ i >= numPages
    /\ doc' = "none"
    /\ fileIdx' = fileIdx + 1
    /\ pc' = "file"
    /\ UNCHANGED <<callVars, pdfFiles,
                   skippedLinesOpen, skippedLines, transactions,
                   csvFile, month, day, year, isJanuaryStatement, numPages, i,
                   currentPage, scanVars, linesRead>>

\* Lines 131 and 118: std::getline finds no further line on the page.
EndPage ==
    /\ pc = "line"
    /\ i' = i + 1
    /\ currentPage' = "none"
    /\ pc' = "page"
    /\ UNCHANGED <<callVars, pdfFiles,
                   skippedLinesOpen, skippedLines, transactions,
                   csvFile, fileIdx, fileVars, scanVars, linesRead>>

\* Lines 91 and 209: the loop over pdfFiles is over.
FinishProcessPdfs ==
    /\ pc = "file"
    /\ fileIdx > Len(pdfFiles)
    /\ pc' = "processed"
    /\ UNCHANGED <<callVars, pdfFiles,
                   skippedLinesOpen, skippedLines, transactions,
                   csvFile, fileIdx, fileVars, i, currentPage, scanVars,
                   linesRead>>

\* The part of the state that the body of the line loop changes.
cur ==
    [pc |-> pc, lastFourFound |-> lastFourFound, lastFour |-> lastFour,
     transactionTitleCount |-> transactionTitleCount,
     transactions |-> transactions, skippedLines |-> skippedLines]

\* Lines 136-141: the last four are the 4 characters after the last space.
extractLastFour(l) ==
    [cur EXCEPT !.lastFour = substrOf(l.text, rfind(l.text, " ") + 1, 4),
                !.lastFourFound = TRUE]

\* skippedLines << trim(line) << "\n"
skipLine(l) ==
    LET w == trim(l.text)
    IN  IF w.ok THEN [cur EXCEPT !.skippedLines = Append(@, w.v)]
        ELSE [cur EXCEPT !.pc = "aborted"]

\* Lines 161-163: a record is generated and appended; an exception of
\* generateTransaction or std::stoi leaves processPdfs.
saveTransaction(l, isOldFormat, isInterestCharge) ==
    LET yr == stoi(year)
        t  == IF yr.ok
              THEN generateTransaction(l.text, yr.v, isJanuaryStatement,
                                       lastFour, isOldFormat, isInterestCharge)
              ELSE Err
    IN  IF t.ok THEN [cur EXCEPT !.transactions = Append(@, t.v)]
        ELSE [cur EXCEPT !.pc = "aborted"]

\* Lines 159-168, 172-181, 185-194: a line of a transaction shape is saved
\* unless it matches the skip pattern.
saveOrSkipUnfiltered(l, isOldFormat, isInterestCharge) ==
    saveTransaction(l, isOldFormat, isInterestCharge)

saveOrSkip(l, isOldFormat, isInterestCharge) ==
    IF ~transactionSkip(l)
    THEN saveTransaction(l, isOldFormat, isInterestCharge)
    ELSE skipLine(l)

\* Lines 157-200: the lines of the transaction section.
classifyLine(l) ==
    IF transactionPattern(l) THEN saveOrSkip(l, FALSE, FALSE)
    ELSE IF transactionPatternInterest(l) THEN saveOrSkip(l, FALSE, TRUE)
    ELSE IF transactionPatternOld(l) THEN saveOrSkip(l, TRUE, FALSE)
    ELSE IF transactionPatternSkippedRelevant(l) THEN skipLine(l)
    ELSE cur

\* The continue of line 154 inside the if of line 150: a line that is not
\* the section title falls through to the classification.
seekTitleNoContinue(l) ==
    IF transactionTitlePattern(l)
    THEN [cur EXCEPT !.transactionTitleCount = @ + 1]
    ELSE classifyLine(l)

\* Lines 148-155: lines before the section title are passed over.
seekTitle(l) ==
    IF transactionTitlePattern(l)
    THEN [cur EXCEPT !.transactionTitleCount = @ + 1]
    ELSE cur

\* Line 135 without the test of lastFourFound: every line that matches the
\* last-four pattern is taken by the extraction.
scanLineAlwaysExtract(l) ==
    IF lastFourPattern(l) THEN extractLastFour(l)
    ELSE IF transactionTitleCount < 1 THEN seekTitle(l)
    ELSE classifyLine(l)

\* The extraction without the continue of line 142: the line that gave the
\* last four goes on to the title search or the classification.
scanLineExtractNoContinue(l) ==
    IF ~lastFourFound /\ lastFourPattern(l)
    THEN [(IF transactionTitleCount < 1 THEN seekTitle(l)
           ELSE classifyLine(l))
             EXCEPT !.lastFour = extractLastFour(l).lastFour,
                    !.lastFourFound = TRUE]
    ELSE IF transactionTitleCount < 1 THEN seekTitle(l)
    ELSE classifyLine(l)

\* Lines 134-200: the body of the line loop.
scanLine(l) ==
    IF ~lastFourFound /\ lastFourPattern(l) THEN extractLastFour(l)
    ELSE IF transactionTitleCount < 1 THEN seekTitle(l)
    ELSE classifyLine(l)

\* The state after the loop body has handled the line l with the result new.
applyScan(l, new) ==
    /\ line' = l
    /\ linePage' = i
    /\ pc' = new.pc
    /\ lastFourFound' = new.lastFourFound
    /\ lastFour' = new.lastFour
    /\ transactionTitleCount' = new.transactionTitleCount
    /\ transactions' = new.transactions
    /\ skippedLines' = new.skippedLines
    /\ titleLines' = titleLines + (IF transactionTitlePattern(l) THEN 1 ELSE 0)

\* Lines 131-201: std::getline reads the next line of the page and the
\* loop body handles it.
ScanLine ==
    /\ pc = "line"
    /\ linesRead < MaxTotalLines
    /\ \E l \in LineSet : applyScan(l, scanLine(l))
    /\ linesRead' = linesRead + 1
    /\ UNCHANGED <<callVars, pdfFiles,
                   skippedLinesOpen, csvFile, fileIdx, fileVars, i,
                   currentPage>>

----------------------------------------------------------------------------
(* PdfProcessor::sortTransactions and PdfProcessor::generateCsvFile        *)

\* Line 293
sortTransactions(ts) == quickSort(ts, 0, Len(ts) - 1)

SortTransactions ==
    /\ pc \in {"processed", "sorted"}
    /\ transactions' = sortTransactions(transactions)
    /\ pc' = "sorted"
    /\ UNCHANGED <<callVars, pdfFiles,
                   skippedLinesOpen, skippedLines, csvFile, fileIdx,
                   fileVars, i, currentPage, scanVars, linesRead>>

\* Lines 310-319: what is written to the file.  A chunk is the CSV form of
\* at most one record (rec) followed by a text.
csvContentNoneForOne(ts) ==
    IF Len(ts) <= 1 THEN <<[rec |-> <<>>, text |-> "None"]>>
    ELSE [k \in 1..Len(ts) |-> [rec |-> <<getCsvFormat(ts[k])>>, text |-> "\n"]]

csvContent(ts) ==
    IF Len(ts) = 0 THEN <<[rec |-> <<>>, text |-> "None"]>>
    ELSE [k \in 1..Len(ts) |-> [rec |-> <<getCsvFormat(ts[k])>>, text |-> "\n"]]

\* Lines 301-322
GenerateCsvFile ==
    /\ pc \in {"processed", "sorted"}
    /\ \E opened \in BOOLEAN :
          IF opened
          THEN csvFile' = csvContent(transactions) /\ pc' = "done"
          ELSE csvFile' = csvFile /\ pc' = "aborted"
    /\ UNCHANGED <<callVars, pdfFiles,
                   skippedLinesOpen, skippedLines, transactions,
                   fileIdx, fileVars, i, currentPage, scanVars, linesRead>>

----------------------------------------------------------------------------

Next ==
    \/ StartProcessPdfs
    \/ OpenFile
    \/ OpenPage
    \/ ScanLine
    \/ EndPage
    \/ CloseFile
    \/ FinishProcessPdfs
    \/ SortTransactions
    \/ GenerateCsvFile

Spec == Init /\ [][Next]_vars

----------------------------------------------------------------------------
(* Functions called on their own, each on every argument of a bounded set  *)

\* The longest token after "Ending in" that is tried.
MaxTokenLen == 5

\* The longest text that trim is called on.
MaxTrimLen == 3

\* All texts over the characters S of at most n characters.
Texts(S, n) == UNION {[1..k -> S] : k \in 0..n}

TxtEndingIn == <<"E","n","d","i","n","g"," ","i","n">>

\* Lines that match the last-four pattern: "Ending in", a space, a token of
\* digits of any length up to MaxTokenLen, and nothing or a space after it.
LastFourTexts ==
    {TxtEndingIn \o <<" ">> \o tok \o tail :
        tok \in Texts({"5", "6"}, MaxTokenLen) \ {<<>>},
        tail \in {<<>>, <<" ">>}}

LastFourCalls ==
    {Call("extractLastFour", s, FALSE, FALSE, FALSE) : s \in LastFourTexts}

\* Lines of a transaction format in which no name is left between the
\* reference number (or the dates) and the amount, or nothing is left.
TxtOldNoName ==
    <<"0","1","/","0","2"," ","0","1","/","0","3"," ","R","E","F","0","0",
      "1","2","3","9"," ","4","5",".","6","7">>

TxtNewNoName ==
    <<"1","2","3","4"," ","0","1","/","0","2"," ","0","1","/","0","3"," ",
      "R","E","F","0","0","1","2","3","9"," ","4","5",".","6","7">>

TxtInterestNoName ==
    <<"0","1","/","3","1"," ","0","1","/","3","1"," ","1","2",".","3","4">>

TxtOldNothingLeft ==
    <<"0","1","/","0","2"," ","0","1","/","0","3"," ","R","E","F","0","0",
      "1","2","3","9">>

\* The texts generateTransaction is called on, each with its format flags.
GenInputs ==
    {<<TxtNewDec, FALSE, FALSE>>, <<TxtExample, FALSE, FALSE>>,
     <<TxtInterest, FALSE, TRUE>>, <<TxtOld, TRUE, FALSE>>,
     <<TxtNewNoName, FALSE, FALSE>>, <<TxtInterestNoName, FALSE, TRUE>>,
     <<TxtOldNoName, TRUE, FALSE>>, <<TxtOldNothingLeft, TRUE, FALSE>>}

GenCalls ==
    {Call("generateTransaction", g[1], g[2], g[3], jan) :
        g \in GenInputs, jan \in BOOLEAN}

\* The texts trim is called on: a letter, a space and a tab in any order.
TrimCalls ==
    {Call("trim", s, FALSE, FALSE, FALSE) :
        s \in Texts({" ", "\t", "a"}, MaxTrimLen)}

\* Directory prefixes of a gathered path: none, one directory, a directory
\* in a directory, and a directory with the separator '/'.
PathPrefixes ==
    {<<>>, <<"s", "\\">>, <<"a", "\\", "b", "\\">>, <<"d", "/">>}

\* File names MMDDYY.pdf.
StatementFileNames ==
    {mm \o dd \o yy \o <<".", "p", "d", "f">> :
        mm \in {<<"0", "1">>, <<"0", "3">>, <<"1", "2">>},
        dd \in {<<"0", "5">>, <<"1", "5">>},
        yy \in {<<"2", "3">>, <<"2", "4">>}}

FileDateCalls ==
    {Call("fileDate", prefix \o name, FALSE, FALSE, FALSE) :
        prefix \in PathPrefixes, name \in StatementFileNames}

CallArgs == LastFourCalls \cup GenCalls \cup TrimCalls \cup FileDateCalls

\* Everything of the run of processPdfs that a call on its own leaves alone.
runVars ==
    <<pdfFiles, skippedLinesOpen, skippedLines, transactions, csvFile,
      fileIdx, fileVars, i, currentPage, scanVars, linesRead>>

\* A call is about to be made; nothing of a run has happened.
CallInit ==
    /\ pc = "call"
    /\ callArg \in CallArgs
    /\ callRet = Err
    /\ pdfFiles = <<>>
    /\ skippedLinesOpen = TRUE
    /\ skippedLines = <<>>
    /\ transactions = <<>>
    /\ csvFile = <<>>
    /\ fileIdx = 1
    /\ month = <<>> /\ day = <<>> /\ year = <<>>
    /\ isJanuaryStatement = FALSE
    /\ doc = "none"
    /\ numPages = 0
    /\ i = 0
    /\ currentPage = "none"
    /\ transactionTitleCount = 0
    /\ lastFourFound = FALSE
    /\ lastFour = <<>>
    /\ line = NoLine
    /\ linePage = 0
    /\ linesRead = 0
    /\ titleLines = 0

\* Lines 136-141 applied to a line that matches the last-four pattern.
CallExtractLastFour ==
    /\ pc = "call"
    /\ callArg.fn = "extractLastFour"
    /\ callRet' = Ok(extractLastFour(Line(callArg.s, {"lastFour"})).lastFour)
    /\ pc' = "returned"
    /\ UNCHANGED <<callArg, runVars>>

\* Lines 226-286 applied to a line of a transaction format, for a statement
\* of the year 2024 and the last four "1234".
CallGenerateTransaction ==
    /\ pc = "call"
    /\ callArg.fn = "generateTransaction"
    /\ callRet' = generateTransaction(callArg.s, 2024, callArg.isJanStatement,
                                    <<"1", "2", "3", "4">>,
                                    callArg.isOldFormat,
                                    callArg.isInterestCharge)
    /\ pc' = "returned"
    /\ UNCHANGED <<callArg, runVars>>

\* Lines 19-28 applied to a text.
CallTrim ==
    /\ pc = "call"
    /\ callArg.fn = "trim"
    /\ callRet' = trim(callArg.s)
    /\ pc' = "returned"
    /\ UNCHANGED <<callArg, runVars>>

\* Lines 94-99 applied to a gathered path.
CallFileDate ==
    /\ pc = "call"
    /\ callArg.fn = "fileDate"
    /\ callRet' = fileDate(callArg.s)
    /\ pc' = "returned"
    /\ UNCHANGED <<callArg, runVars>>

CallNext ==
    \/ CallExtractLastFour
    \/ CallGenerateTransaction
    \/ CallTrim
    \/ CallFileDate

CallSpec == CallInit /\ [][CallNext]_vars

----------------------------------------------------------------------------
(* Properties                                                              *)

\* A step of ScanLine: one more line has been read.
LineScanned == pc = "line" /\ linesRead' = linesRead + 1

\* The line read by the step reaches the code of the transaction section
\* (line 157): it is not taken by the search for the last four and the
\* section title has been counted.
ReachesTransactionSection ==
    /\ LineScanned
    /\ ~(~lastFourFound /\ lastFourPattern(line'))
    /\ transactionTitleCount >= 1

HasTransactionShape(l) ==
    transactionPattern(l) \/ transactionPatternInterest(l)
        \/ transactionPatternOld(l)

\* C1: no line read before the second line that matches the section-title
\* pattern (that line included) yields a record or an entry of the
\* skipped-lines log; parsing starts only after the second occurrence.
C1_ParsingStartsAfterSecondTitle ==
    [][(LineScanned /\ titleLines < 2)
          => (transactions' = transactions /\ skippedLines' = skippedLines)]_vars

\* C2: a line of the transaction section that matches a transaction shape
\* and the skip pattern appends no record and is written exactly once to
\* the skipped-lines log.
C2_SkippedShapeLineIsLogged ==
    [][(ReachesTransactionSection /\ HasTransactionShape(line')
           /\ transactionSkip(line'))
          => (/\ transactions' = transactions
              /\ trim(line'.text).ok
              /\ skippedLines' = Append(skippedLines, trim(line'.text).v))]_vars

C2_Witness ==
    /\ line = SkipLine
    /\ transactionTitleCount >= 1
    /\ Len(skippedLines) = 2
    /\ skippedLines[2] = TxtSkip
    /\ transactions = <<>>

\* C3: the year of a generated record is the statement year minus one for
\* a January statement and a transaction month 12, and the statement year
\* in every other case.
C3_YearCorrection ==
    [][(LineScanned /\ Len(transactions') = Len(transactions) + 1)
          => LET t == transactions'[Len(transactions')]
             IN  t.date.year =
                     IF isJanuaryStatement /\ t.date.month = 12
                     THEN stoi(year).v - 1
                     ELSE stoi(year).v]_vars

C3_Witness ==
    /\ isJanuaryStatement
    /\ line = NewDecLine
    /\ Len(transactions) >= 1
    /\ transactions[Len(transactions)].date = Date(2023, 12, 15)

\* C4: lastFourFound is true whenever a record is created.
C4_LastFourFoundBeforeRecord ==
    [][(LineScanned /\ Len(transactions') > Len(transactions))
          => lastFourFound]_vars

Str1234 ==
    <<"1","2","3","4">>

StrREF001234 ==
    <<"R","E","F","0","0","1","2","3","4">>

StrSTOREPURCHASE ==
    <<"S","T","O","R","E"," ","P","U","R","C","H","A","S","E">>

Str0115RE ==
    <<"0","1","/","1","5"," "," ","R","E">>

StrF001234 ==
    <<"F","0","0","1","2","3","4"," "," "," ","S","T","O","R","E"," ","P","U","R","C","H","A","S","E">>

\* The example line is forwarded to generateTransaction with last four
\* "1234", statement year 2024 and a statement that is not of January.
ExampleLineGenerated ==
    /\ ReachesTransactionSection
    /\ line' = ExampleLine
    /\ lastFour = Str1234
    /\ year = <<"2", "0", "2", "4">>
    /\ ~isJanuaryStatement

IsLeapYear(y) == (y % 4 = 0 /\ y % 100 # 0) \/ y % 400 = 0

DaysInMonth(y, m) ==
    IF m = 2 THEN (IF IsLeapYear(y) THEN 29 ELSE 28)
    ELSE IF m \in {4, 6, 9, 11} THEN 30 ELSE 31

ValidDate(d) ==
    /\ d.month \in 1..12
    /\ d.day >= 1
    /\ d.day <= DaysInMonth(d.year, d.month)

\* C6: every record of the transaction collection has a valid calendar
\* date.
C6_ValidCalendarDate ==
    \A k \in 1..Len(transactions) : ValidDate(transactions[k].date)

\* The number of '/' characters of a text.
SlashCount(text) == Cardinality({k \in 1..Len(text) : text[k] = "/"})

\* The last token of a text is no amount.
NoAmountToken(text) ==
    LET stripped == substrOf(text, 0, find_last_not_of(text, WhiteSpace) + 1)
        token    == substrOf(stripped, rfind(stripped, " ") + 1, npos)
    IN  ~stod(removeCommas(token)).ok

\* Fewer than REF_NUM_SIZE characters follow the start of the reference
\* number of a line that has its two dates.
ShortRefNum(l) ==
    LET l1 == removeLastFour(l.text, transactionPatternOld(l),
                             transactionPatternInterest(l))
        l2 == IF l1.ok THEN removeDate(l1.v, find(l1.v, "/", 0)) ELSE Err
        refNumIdx == find_first_not_of(l2.v, {" "})
    IN  /\ ~transactionPatternInterest(l)
        /\ l2.ok
        /\ (refNumIdx = npos \/ Len(l2.v) - refNumIdx < REF_NUM_SIZE)

\* A delimiter or a fixed-width field is absent from the line.
FieldAbsent(l) ==
    \/ SlashCount(l.text) < 2
    \/ (SlashCount(l.text) >= 2 /\ ShortRefNum(l))
    \/ NoAmountToken(l.text)

\* C7: generateTransaction fails, and no record is appended, for a line
\* without '/', without a second '/', with too short a reference number or
\* without an amount token.
C7_AbsentFieldFails ==
    [][(ReachesTransactionSection /\ HasTransactionShape(line')
           /\ ~transactionSkip(line') /\ FieldAbsent(line'))
          => (pc' = "aborted" /\ transactions' = transactions)]_vars

\* C8: a document or a page that cannot be loaded ends the run there: no
\* further line is read and nothing is added to the transaction collection
\* or to the skipped-lines log afterwards.
C8_LoadFailureAborts ==
    [][/\ (doc' = "null" \/ currentPage' = "null") => pc' = "aborted"
       /\ pc = "aborted"
             => (/\ pc' = "aborted"
                 /\ linesRead' = linesRead
                 /\ transactions' = transactions
                 /\ skippedLines' = skippedLines)]_vars

C8_Witness ==
    /\ pc = "aborted"
    /\ doc = "null"
    /\ fileIdx < Len(pdfFiles)
    /\ linesRead = 0

\* C9: the CSV file holds exactly the text None for an empty collection,
\* and otherwise one line per record, in the order of the collection, and
\* no text None.
C9_CsvContent ==
    pc = "done"
        => IF Len(transactions) = 0
           THEN csvFile = <<[rec |-> <<>>, text |-> "None"]>>
           ELSE /\ Len(csvFile) = Len(transactions)
                /\ \A k \in 1..Len(transactions) :
                      /\ csvFile[k].rec = <<getCsvFormat(transactions[k])>>
                      /\ csvFile[k].text = "\n"

C9_Witness ==
    /\ pc = "done"
    /\ Len(transactions) = 0
    /\ linesRead > 0
    /\ csvFile = <<[rec |-> <<>>, text |-> "None"]>>

InsideStatement == pc \in {"page", "line"}

\* The values that the loop body leaves after the step.
scanned ==
    [pc |-> pc', lastFourFound |-> lastFourFound', lastFour |-> lastFour',
     transactionTitleCount |-> transactionTitleCount',
     transactions |-> transactions', skippedLines |-> skippedLines']

\* C11: inside one statement the scanner only moves forward: the counter
\* of section titles never decreases once it has reached 1 (the value that
\* opens the transaction section, line 148), lastFourFound never goes back
\* to false, and so every line read after the section was entered, on this
\* page or a later one, is handled with the section open: the title search
\* never takes it again; it goes to the classification of line 157 (or,
\* while the last four are still missing, to the search for them, which
\* runs in every phase).
C11_PhaseOnlyMovesForward ==
    [][InsideStatement =>
          /\ transactionTitleCount >= 1 =>
                transactionTitleCount' >= transactionTitleCount
          /\ lastFourFound => lastFourFound'
          /\ (LineScanned /\ transactionTitleCount >= 1) =>
                IF ~lastFourFound /\ lastFourPattern(line')
                THEN scanned = extractLastFour(line')
                ELSE scanned = classifyLine(line')]_vars

\* A line of the second page is classified after the section was entered
\* and the last four were found on the first page.
C11_Witness ==
    /\ pc = "line"
    /\ linePage = 1
    /\ line = NewDecLine
    /\ Len(transactions) = 1
    /\ transactions[1].lastFour = Str1234
    /\ transactionTitleCount = 1
    /\ lastFourFound


\* C12: while the section title is still sought (the counter is below 1),
\* no line yields a record or an entry of the skipped-lines log, whatever
\* transaction, skip or skipped-relevant pattern it matches; this holds for
\* the title line that ends the search too.
C12_NothingWrittenBeforeSection ==
    [][(LineScanned /\ transactionTitleCount < 1) =>
          /\ transactions' = transactions
          /\ skippedLines' = skippedLines]_vars

\* A line of the new transaction format has been read before the section
\* title and has left no record.
C12_Witness ==
    /\ pc = "line"
    /\ line = NewDecLine
    /\ transactionTitleCount = 0
    /\ transactions = <<>>
    /\ skippedLines = <<SKIPPED_LINES_BANNER>>


\* C13: the scanner state is reset for every statement: before the first
\* line of a statement is read (the file is open and its first page is not
\* yet created) lastFourFound is false, lastFour is empty and the counter of
\* section titles is 0, whatever the statement before has left; so no
\* statement starts inside the transaction section or with the last four
\* of another statement.
C13_ScannerResetPerStatement ==
    (pc = "page" /\ i = 0) =>
        /\ ~lastFourFound
        /\ lastFour = <<>>
        /\ transactionTitleCount = 0

\* The second statement starts after the first one has found its last
\* four, entered the transaction section and yielded a record.
C13_Witness ==
    /\ pc = "page"
    /\ i = 0
    /\ fileIdx = 2
    /\ Len(transactions) = 1
    /\ transactions[1].lastFour = Str1234
    /\ ~lastFourFound
    /\ lastFour = <<>>
    /\ transactionTitleCount = 0


Str5678 == <<"5", "6", "7", "8">>

\* C14: once the last four have been extracted, no later line of the
\* statement changes them, a later line that matches the last-four pattern
\* included: such a line is not taken by the search for the last four and
\* goes on to the title search or to the classification as any other line.
C14_LastFourKept ==
    [][(LineScanned /\ lastFourFound) =>
          /\ lastFourFound'
          /\ lastFour' = lastFour
          /\ scanned = IF transactionTitleCount < 1 THEN seekTitle(line')
                       ELSE classifyLine(line')]_vars

\* After "1234" was extracted, a line that matches the last-four pattern
\* (with the token "5678") and the title pattern has been counted as the
\* section title and has left the last four as they were.
C14_Witness ==
    /\ pc = "line"
    /\ line = LastFourTitleLine
    /\ lastFourFound
    /\ lastFour = Str1234
    /\ transactionTitleCount = 1
    /\ titleLines = 1


\* C15: while the last four have not been found, every line is tested
\* against the last-four pattern, in the transaction section as before it;
\* the first line that matches sets the last four and is consumed by this
\* search alone: it is not counted as a section title and yields neither a
\* record nor an entry of the skipped-lines log, even when it matches the
\* title pattern or a transaction pattern as well.
C15_LastFourLineConsumed ==
    [][(LineScanned /\ ~lastFourFound /\ lastFourPattern(line')) =>
          /\ lastFourFound'
          /\ lastFour' = extractLastFour(line').lastFour
          /\ transactionTitleCount' = transactionTitleCount
          /\ transactions' = transactions
          /\ skippedLines' = skippedLines
          /\ pc' = "line"]_vars

\* Inside the transaction section a line that matches the last-four
\* pattern and the new transaction format has given the last four and no
\* record.
C15_Witness ==
    /\ pc = "line"
    /\ line = LastFourShapeLine
    /\ transactionTitleCount = 1
    /\ lastFourFound
    /\ lastFour = Str5678
    /\ transactions = <<>>
    /\ skippedLines = <<SKIPPED_LINES_BANNER>>


\* The four characters that end at the last character of s that is not a
\* space (fewer when s has fewer).
TrailingFour(s) ==
    LET e == find_last_not_of(s, {" "})
    IN  IF e = npos THEN <<>>
        ELSE SubSeq(s, IF e >= 3 THEN e - 2 ELSE 1, e + 1)

\* C16: the last four extracted from a line that matches the last-four
\* pattern are exactly 4 characters and are the trailing 4-character token
\* of the line, also for a line that ends with a space and for a line whose
\* last token is shorter or longer than 4 characters.
C16_LastFourIsTrailingToken ==
    (pc = "returned" /\ callArg.fn = "extractLastFour") =>
        /\ callRet.ok
        /\ Len(callRet.v) = 4
        /\ callRet.v = TrailingFour(callArg.s)


\* The number of tokens of s: the runs of characters that are not
\* whitespace.
TokenCount(s) ==
    Cardinality({k \in 1..Len(s) :
        /\ s[k] \notin WhiteSpace
        /\ (k = 1 \/ s[k - 1] \in WhiteSpace)})

\* What is left of the line of the call for the amount and the name, after
\* the last four, the dates and the reference number have been removed
\* (lines 236-265); Err when one of these steps throws.
NameAndAmountText(c) ==
    LET l1 == removeLastFour(c.s, c.isOldFormat, c.isInterestCharge)
        l2 == IF l1.ok THEN removeDate(l1.v, find(l1.v, "/", 0)) ELSE Err
    IN  IF l2.ok THEN extractRefNum(l2.v, c.isInterestCharge) ELSE Err

\* Nothing but the amount token, or nothing at all, is left for the name.
NoNameLeft(c) ==
    /\ NameAndAmountText(c).ok
    /\ TokenCount(NameAndAmountText(c).v.ln) <= 1

\* C17: generateTransaction fails when the text left for the name is
\* empty: for a line in which nothing but the amount token, or nothing at
\* all, remains after the last four, the dates and the reference number,
\* the call throws and no record is produced (none with an empty name,
\* none with the amount text as its name).
C17_EmptyNameFails ==
    (pc = "returned" /\ callArg.fn = "generateTransaction"
        /\ NoNameLeft(callArg)) => ~callRet.ok


\* s without its leading and its trailing whitespace.
Stripped(s) ==
    LET nonWs == {k \in 1..Len(s) : s[k] \notin WhiteSpace}
    IN  IF nonWs = {} THEN <<>>
        ELSE SubSeq(s, CHOOSE k \in nonWs : \A j \in nonWs : k <= j,
                       CHOOSE k \in nonWs : \A j \in nonWs : k >= j)

\* C18: trim(s) returns s without any leading and trailing whitespace
\* (space, tab, line feed, carriage return) for every s: the result neither
\* starts nor ends with whitespace, and it is the empty text, not an error,
\* when s is empty or all whitespace.
C18_TrimStripsBothEnds ==
    (pc = "returned" /\ callArg.fn = "trim") =>
        /\ callRet.ok
        /\ callRet.v = Stripped(callArg.s)


\* The file name of a path: what follows its last directory separator.
FileName(path) ==
    LET seps == {k \in 1..Len(path) : path[k] \in {"\\", "/"}}
    IN  IF seps = {} THEN path
        ELSE SubSeq(path, (CHOOSE k \in seps : \A j \in seps : k >= j) + 1,
                    Len(path))

\* C19: for every gathered path the month, the day and the year of the
\* statement are the MM, the DD and (after "20") the YY of the MMDDYY that
\* starts the file name, and isJanuaryStatement is true exactly when MM is
\* "01", whatever directory prefix the path has: none, one without a
\* backslash, or one with more than one backslash.
C19_DateFromFileName ==
    (pc = "returned" /\ callArg.fn = "fileDate") =>
        /\ callRet.ok
        /\ callRet.v.month = SubSeq(FileName(callArg.s), 1, 2)
        /\ callRet.v.day = SubSeq(FileName(callArg.s), 3, 4)
        /\ callRet.v.year = <<"2", "0">> \o SubSeq(FileName(callArg.s), 5, 6)
        /\ callRet.v.isJanuaryStatement =
              (SubSeq(FileName(callArg.s), 1, 2) = <<"0", "1">>)

====
